---- MODULE Spec2Model ----
(***************************************************************************)
(* Overtime calculator of app/mileiq_dashboard.py (the "Overtime" tab).    *)
(*                                                                         *)
(* One run of the tab is modelled as a state machine:                      *)
(*   uploaded --LoadOvertimeFile--> widgets --PickPattern--> loop          *)
(*            --BuildOvertimeRows--> sort --BuildResult--> done            *)
(*                                                                         *)
(* Units.  A timestamp is [date |-> proleptic Gregorian ordinal (Python's  *)
(* date.toordinal()), minute |-> minute of the day].  "Overtime Hours" is  *)
(* held in minutes (7.5 h = 450, 0.5 h = 30) so that the arithmetic stays  *)
(* in the integers.  A formatted date ("%d-%b-%Y") is the sequence of its  *)
(* character codes, so that sorting by it is the string sort of the code.  *)
(* Start location and miles play no part in the overtime computation and   *)
(* are left out of the rows.                                               *)
(***************************************************************************)
EXTENDS Integers, Sequences, FiniteSets

VARIABLES
    uploaded,        \* rows of the uploaded export: Start Time cell, End Location
    raw_df,          \* rows after process_file and the End Time Parsed column
    dates_present,   \* sorted distinct dates offered by the multiselect
    use_pattern,     \* the checkbox
    sel,             \* the multiselect's value, in selection order
    off_days,        \* set of date ordinals
    groupKeys,       \* keys of the groupby, ascending
    overtime_rows,   \* list built by the loop
    overtime_df,     \* the sorted frame that is displayed
    total_overtime,  \* sum of "Overtime Hours", in minutes
    pc

vars == <<uploaded, raw_df, dates_present, use_pattern, sel, off_days,
          groupKeys, overtime_rows, overtime_df, total_overtime, pc>>

----------------------------------------------------------------------------
(* Bounds of the model *)

\* longest uploaded file
MaxRows == 3

----------------------------------------------------------------------------
(* Calendar arithmetic, as datetime.date does it *)

IsLeap(y) == (y % 4 = 0) /\ ((y % 100 # 0) \/ (y % 400 = 0))

DaysInMonth(y, m) ==
    IF m = 2 THEN (IF IsLeap(y) THEN 29 ELSE 28)
    ELSE IF m \in {4, 6, 9, 11} THEN 30 ELSE 31

RECURSIVE DaysBeforeMonth(_, _)
DaysBeforeMonth(y, m) ==
    IF m = 1 THEN 0 ELSE DaysBeforeMonth(y, m - 1) + DaysInMonth(y, m - 1)

DaysBeforeYear(y) ==
    365 * (y - 1) + ((y - 1) \div 4) - ((y - 1) \div 100) + ((y - 1) \div 400)

ToOrdinal(y, m, d) == DaysBeforeYear(y) + DaysBeforeMonth(y, m) + d

Years == 2023..2025

YearOf(n) == CHOOSE y \in Years : DaysBeforeYear(y) < n /\ n <= DaysBeforeYear(y + 1)

MonthOf(n) ==
    LET y == YearOf(n)
        r == n - DaysBeforeYear(y)
    IN  CHOOSE m \in 1..12 :
            DaysBeforeMonth(y, m) < r /\ r <= DaysBeforeMonth(y, m) + DaysInMonth(y, m)

DayOf(n) == n - DaysBeforeYear(YearOf(n)) - DaysBeforeMonth(YearOf(n), MonthOf(n))

\* Monday = 0 ... Sunday = 6
Weekday(n) == (n + 6) % 7

----------------------------------------------------------------------------
(* pd.to_datetime(..., errors="coerce", dayfirst=True) *)

NaT == [date |-> 0, minute |-> 0]

IsNaT(t) == t = NaT

\* a rollover parser: the day of the month is not validated
ToDatetime_rollover(cell) ==
    IF /\ cell.y \in Years
       /\ cell.m \in 1..12
       /\ cell.d >= 1
       /\ cell.H \in 0..23
       /\ cell.M \in 0..59
    THEN [date |-> ToOrdinal(cell.y, cell.m, cell.d), minute |-> 60 * cell.H + cell.M]
    ELSE NaT

\* cell: the day-first text of the Start Time column, as its five numbers
ToDatetime(cell) ==
    IF /\ cell.y \in Years
       /\ cell.m \in 1..12
       /\ cell.d >= 1
       /\ cell.d <= DaysInMonth(cell.y, cell.m)
       /\ cell.H \in 0..23
       /\ cell.M \in 0..59
    THEN [date |-> ToOrdinal(cell.y, cell.m, cell.d), minute |-> 60 * cell.H + cell.M]
    ELSE NaT

----------------------------------------------------------------------------
(* extract_postcode, on the location texts of the model *)

extract_postcode(location) ==
    CASE location = "Home"            -> "UB3"
      [] location = "Rico Pudo Depot" -> "UB7"
      [] location = "1 High St, UB3 4AX" -> "UB3"
      [] OTHER                        -> ""

----------------------------------------------------------------------------
(* strftime *)

Digit(k) == 48 + k

MonthAbbr ==
    << <<74, 97, 110>>, <<70, 101, 98>>, <<77, 97, 114>>, <<65, 112, 114>>,
       <<77, 97, 121>>, <<74, 117, 110>>, <<74, 117, 108>>, <<65, 117, 103>>,
       <<83, 101, 112>>, <<79, 99, 116>>, <<78, 111, 118>>, <<68, 101, 99>> >>

\* strftime("%d-%b-%Y"), as character codes
StrftimeDate(n) ==
    LET y == YearOf(n)
        d == DayOf(n)
    IN  <<Digit(d \div 10), Digit(d % 10), 45>> \o MonthAbbr[MonthOf(n)] \o
        <<45, Digit(y \div 1000), Digit((y \div 100) % 10),
          Digit((y \div 10) % 10), Digit(y % 10)>>

DayNames ==
    <<"Monday", "Tuesday", "Wednesday", "Thursday", "Friday", "Saturday", "Sunday">>

\* strftime("%A")
StrftimeDay(t) == DayNames[Weekday(t.date) + 1]

\* strftime("%H:%M"), as the pair of its two numbers
StrftimeHM(t) == <<t.minute \div 60, t.minute % 60>>

\* string comparison of two sequences of character codes
RECURSIVE StrLess(_, _)
StrLess(a, b) ==
    IF b = <<>> THEN FALSE
    ELSE IF a = <<>> THEN TRUE
    ELSE IF Head(a) # Head(b) THEN Head(a) < Head(b)
    ELSE StrLess(Tail(a), Tail(b))

----------------------------------------------------------------------------
(* process_file and the columns the overtime tab adds *)

ProcessRow(row) ==
    [ StartTime     |-> row.StartTime,
      EndPostcode   |-> extract_postcode(row.EndLocation),
      EndTimeParsed |-> ToDatetime(row.StartTime) ]

ProcessRows(rows) == [k \in 1..Len(rows) |-> ProcessRow(rows[k])]

RECURSIVE SortedSeqOf(_)
SortedSeqOf(S) ==
    IF S = {} THEN <<>>
    ELSE LET lo == CHOOSE x \in S : \A z \in S : x <= z
         IN  <<lo>> \o SortedSeqOf(S \ {lo})

\* dropna: rows without a timestamp have no date
DateKeys(df) ==
    SortedSeqOf({df[k].EndTimeParsed.date : k \in {j \in 1..Len(df) : ~IsNaT(df[j].EndTimeParsed)}})

----------------------------------------------------------------------------
(* Policy constants, in minutes *)

\* 7.5 hours
FullDay == 450
\* the 0.5 hour step of the rounding
HalfHour == 30
\* 16:30
WeekendCutoff == 990
\* 17:30
WeekdayCutoff == 1050

----------------------------------------------------------------------------
(* The overtime tab *)

\* a cutoff that treats only Sunday as the weekend
get_cutoff_time_sunday(day_of_week) ==
    IF day_of_week > 5 THEN WeekendCutoff ELSE WeekdayCutoff

get_cutoff_time(day_of_week) ==
    IF day_of_week >= 5 THEN WeekendCutoff ELSE WeekdayCutoff

Selections(dates) ==
    {<<>>} \cup {<<dates[a]>> : a \in 1..Len(dates)}
           \cup {<<dates[a], dates[b]>> : <<a, b>> \in {p \in (1..Len(dates)) \X (1..Len(dates)) : p[1] # p[2]}}

\* S and T taken in selection order, without sorted()
OffDays_unsorted(use, picked) ==
    IF use /\ Len(picked) = 2
    THEN {picked[1] - 2, picked[1] - 1, picked[2] + 1, picked[2] + 2}
    ELSE {}

\* the variant that also counts S and T themselves
OffDays_withWorkDays(use, picked) ==
    IF use /\ Len(picked) = 2
    THEN LET S == IF picked[1] <= picked[2] THEN picked[1] ELSE picked[2]
             T == IF picked[1] <= picked[2] THEN picked[2] ELSE picked[1]
         IN  {S - 2, S - 1, S, T, T + 1, T + 2}
    ELSE {}

OffDays(use, picked) ==
    IF use /\ Len(picked) = 2
    THEN LET S == IF picked[1] <= picked[2] THEN picked[1] ELSE picked[2]
             T == IF picked[1] <= picked[2] THEN picked[2] ELSE picked[1]
         IN  {S - 2, S - 1, T + 1, T + 2}
    ELSE {}

\* the rows of one groupby group
Group(df, date) ==
    LET OnDate(r) == ~IsNaT(r.EndTimeParsed) /\ r.EndTimeParsed.date = date
    IN  SelectSeq(df, OnDate)

HomeRows(group) ==
    LET AtHome(r) == r.EndPostcode = "UB3"
    IN  SelectSeq(group, AtHome)

Times(rowsOfGroup) == {rowsOfGroup[k].EndTimeParsed : k \in 1..Len(rowsOfGroup)}

TsLeq(a, b) == a.date < b.date \/ (a.date = b.date /\ a.minute <= b.minute)

\* the latest row of the day, whatever its end postcode
LatestHome_anyRow(group) ==
    CHOOSE t \in Times(group) : \A u \in Times(group) : TsLeq(u, t)

\* sort_values("End Time Parsed").tail(1) of the home rows
LatestHome(group) ==
    CHOOSE t \in Times(HomeRows(group)) : \A u \in Times(HomeRows(group)) : TsLeq(u, t)

\* rounding down to the half hour
RoundUpHalfHour_floor(diff) == HalfHour * (diff \div HalfHour)

\* math.ceil(diff_hours * 2) / 2
RoundUpHalfHour(diff) ==
    IF diff % HalfHour = 0 THEN diff ELSE HalfHour * ((diff \div HalfHour) + 1)

Min(a, b) == IF a <= b THEN a ELSE b

\* a guard that lets a day without overtime through
HasOvertime_orZero(hours) == hours >= 0

\* if hours > 0
HasOvertime(hours) == hours > 0

\* one iteration of the for loop: no row, or the row appended
OvertimeRowsFor(date, df, off) ==
    LET group == Group(df, date)
    IN  IF HomeRows(group) = <<>> THEN <<>>
        ELSE LET arrival_time == LatestHome(group)
                 cutoff_time  == get_cutoff_time(Weekday(arrival_time.date))
                 diff         == arrival_time.minute - cutoff_time
                 hours        == IF date \in off THEN FullDay
                                 ELSE IF diff > 0 THEN Min(RoundUpHalfHour(diff), FullDay)
                                 ELSE 0
                 full_day_flag == IF date \in off THEN TRUE
                                  ELSE IF diff > 0 THEN hours = FullDay
                                  ELSE FALSE
             IN  IF HasOvertime(hours)
                 THEN << [ Date          |-> StrftimeDate(date),
                           Day           |-> StrftimeDay(arrival_time),
                           HomeArrival   |-> StrftimeHM(arrival_time),
                           OvertimeHours |-> hours,
                           Flag          |-> IF full_day_flag THEN "o" ELSE "" ] >>
                 ELSE <<>>

RECURSIVE InsertByDate(_, _)
InsertByDate(row, sorted) ==
    IF sorted = <<>> THEN <<row>>
    ELSE IF StrLess(row.Date, Head(sorted).Date) THEN <<row>> \o sorted
    ELSE <<Head(sorted)>> \o InsertByDate(row, Tail(sorted))

\* sort_values("Date"): a sort on the formatted text
RECURSIVE SortByDate(_)
SortByDate(rows) ==
    IF rows = <<>> THEN <<>>
    ELSE InsertByDate(rows[Len(rows)], SortByDate(SubSeq(rows, 1, Len(rows) - 1)))

RECURSIVE SumHours(_)
SumHours(rows) ==
    IF rows = <<>> THEN 0 ELSE Head(rows).OvertimeHours + SumHours(Tail(rows))

\* the whole loop over the groups of df
RECURSIVE LoopRows(_, _, _)
LoopRows(keys, df, off) ==
    IF keys = <<>> THEN <<>>
    ELSE OvertimeRowsFor(Head(keys), df, off) \o LoopRows(Tail(keys), df, off)

----------------------------------------------------------------------------
(* Inputs *)

Cell(d, m, y, H, M) == [d |-> d, m |-> m, y |-> y, H |-> H, M |-> M]

\* Sat 30-Mar-2024 18:07, Sun 31-Mar-2024 17:30 and 18:07, Mon 01-Apr-2024 17:30,
\* and one cell that is no date (32 March)
CellsSpec ==
    { Cell(30, 3, 2024, 18, 7), Cell(31, 3, 2024, 17, 30), Cell(31, 3, 2024, 18, 7),
      Cell(1, 4, 2024, 17, 30), Cell(32, 3, 2024, 18, 7) }

\* Sat 16-Mar-2024, Sun 17-Mar-2024 and Tue 19-Mar-2024, around both cutoffs
CellsDay ==
    { Cell(16, 3, 2024, hm[1], hm[2]) : hm \in {<<16, 30>>, <<16, 31>>, <<17, 30>>, <<20, 5>>} }
    \cup { Cell(17, 3, 2024, 23, 59) }
    \cup { Cell(19, 3, 2024, hm[1], hm[2]) : hm \in {<<17, 30>>, <<17, 31>>, <<18, 7>>} }

EndLocations == {"Home", "Rico Pudo Depot"}

RowsOf(cells, locations) == [StartTime : cells, EndLocation : locations]

FilesUpTo(rows, n) == UNION {[1..k -> rows] : k \in 0..n}

----------------------------------------------------------------------------
(* The state machine *)

InitWith(files) ==
    /\ uploaded \in files
    /\ raw_df = <<>>
    /\ dates_present = <<>>
    /\ use_pattern = TRUE
    /\ sel = <<>>
    /\ off_days = {}
    /\ groupKeys = <<>>
    /\ overtime_rows = <<>>
    /\ overtime_df = <<>>
    /\ total_overtime = 0
    /\ pc = "uploaded"

Init == InitWith(FilesUpTo(RowsOf(CellsSpec, EndLocations), MaxRows))

InitDay == InitWith(FilesUpTo(RowsOf(CellsDay, {"Home"}), MaxRows))

\* process_file, End Time Parsed and dates_present
LoadOvertimeFile ==
    /\ pc = "uploaded"
    /\ raw_df' = ProcessRows(uploaded)
    /\ dates_present' = DateKeys(raw_df')
    /\ pc' = "widgets"
    /\ UNCHANGED <<uploaded, use_pattern, sel, off_days, groupKeys,
                   overtime_rows, overtime_df, total_overtime>>

\* the checkbox, the multiselect and off_days; the groupby is set up
PickPattern ==
    /\ pc = "widgets"
    /\ \E use \in BOOLEAN, picked \in Selections(dates_present) :
          /\ use_pattern' = use
          /\ sel' = picked
          /\ off_days' = OffDays(use, picked)
    /\ groupKeys' = DateKeys(raw_df)
    /\ overtime_rows' = <<>>
    /\ pc' = "loop"
    /\ UNCHANGED <<uploaded, raw_df, dates_present, overtime_df, total_overtime>>

\* the whole "for date, group in raw_df.groupby(...)" loop
BuildOvertimeRows ==
    /\ pc = "loop"
    /\ overtime_rows' = LoopRows(groupKeys, raw_df, off_days)
    /\ pc' = "sort"
    /\ UNCHANGED <<uploaded, raw_df, dates_present, use_pattern, sel, off_days,
                   groupKeys, overtime_df, total_overtime>>

\* overtime_df and total_overtime
BuildResult ==
    /\ pc = "sort"
    /\ overtime_df' = SortByDate(overtime_rows)
    /\ total_overtime' = SumHours(overtime_df')
    /\ pc' = "done"
    /\ UNCHANGED <<uploaded, raw_df, dates_present, use_pattern, sel, off_days,
                   groupKeys, overtime_rows>>

Next == LoadOvertimeFile \/ PickPattern \/ BuildOvertimeRows \/ BuildResult

Spec == Init /\ [][Next]_vars

SpecDay == InitDay /\ [][Next]_vars

----------------------------------------------------------------------------
(* What the claims speak about *)

Done == pc = "done"

PatternChosen == pc \in {"loop", "sort", "done"}

\* the calendar days with at least one trip event with a valid timestamp
ActiveDates ==
    {raw_df[k].EndTimeParsed.date : k \in {j \in 1..Len(raw_df) : raw_df[j].EndTimeParsed.date # 0}}

\* minutes of the day of the events of day d that end at the home code
HomeMinutes(d) ==
    {raw_df[k].EndTimeParsed.minute :
        k \in {j \in 1..Len(raw_df) : raw_df[j].EndTimeParsed.date = d /\ raw_df[j].EndPostcode = "UB3"}}

Greatest(S) == CHOOSE x \in S : \A z \in S : z <= x

Least(S) == CHOOSE x \in S : \A z \in S : x <= z

\* the emitted records of day d
RecordsOn(d) == {k \in 1..Len(overtime_df) : overtime_df[k].Date = StrftimeDate(d)}

\* the calendar day a record is about
RecordDate(r) == CHOOSE n \in ActiveDates : StrftimeDate(n) = r.Date

IsWeekend(d) == Weekday(d) \in {5, 6}

CutoffOf(d) == IF IsWeekend(d) THEN 16 * 60 + 30 ELSE 17 * 60 + 30

\* minutes by which the latest home arrival of day d is after the cutoff
MinutesLate(d) == Greatest(HomeMinutes(d)) - CutoffOf(d)

Picked == {sel[k] : k \in 1..Len(sel)}

Sat30Mar == ToOrdinal(2024, 3, 30)
Sun31Mar == ToOrdinal(2024, 3, 31)
Mon01Apr == ToOrdinal(2024, 4, 1)
Sat16Mar == ToOrdinal(2024, 3, 16)
Sun17Mar == ToOrdinal(2024, 3, 17)
Tue19Mar == ToOrdinal(2024, 3, 19)

----------------------------------------------------------------------------
(* C1 *)

\* C1: every day that is in the off-day set and has at least one event with a
\* valid timestamp gets a record with 7.5 hours and the full-day flag, also
\* when none of its events ends at the home code.
C1_OffDayPrecedence ==
    Done =>
        \A d \in ActiveDates \cap off_days :
            \E k \in RecordsOn(d) :
                overtime_df[k].OvertimeHours = 450 /\ overtime_df[k].Flag = "o"

----------------------------------------------------------------------------
(* C2 *)

\* C2: a day outside the off-day set whose latest home arrival is d > 0 minutes
\* after the cutoff gets a record whose hours are a whole number of half hours,
\* not below d and less than half an hour above it; Tuesday 18:07 gives 1.0
\* and Saturday 20:05 gives 4.0.
C2_RoundingLaw ==
    Done =>
        \A d \in ActiveDates \ off_days :
            (HomeMinutes(d) # {} /\ MinutesLate(d) > 0) =>
                /\ RecordsOn(d) # {}
                /\ \A k \in RecordsOn(d) :
                      LET h == overtime_df[k].OvertimeHours
                      IN  /\ h % 30 = 0
                          /\ h >= MinutesLate(d)
                          /\ h - MinutesLate(d) < 30
                          /\ (d = Tue19Mar /\ Greatest(HomeMinutes(d)) = 18 * 60 + 7) => h = 60
                          /\ (d = Sat16Mar /\ Greatest(HomeMinutes(d)) = 20 * 60 + 5) => h = 240

C2_Witness ==
    /\ Done
    /\ Tue19Mar \notin off_days
    /\ Sat16Mar \notin off_days
    /\ HomeMinutes(Tue19Mar) # {} /\ Greatest(HomeMinutes(Tue19Mar)) = 18 * 60 + 7
    /\ HomeMinutes(Sat16Mar) # {} /\ Greatest(HomeMinutes(Sat16Mar)) = 20 * 60 + 5
    /\ \E k \in RecordsOn(Tue19Mar) : overtime_df[k].OvertimeHours = 60
    /\ \E k \in RecordsOn(Sat16Mar) : overtime_df[k].OvertimeHours = 240

----------------------------------------------------------------------------
(* C3 *)

\* C3: the cutoff is 16:30 on Saturday and Sunday and 17:30 on the other days;
\* outside the off-day set a latest home arrival at or before the cutoff gives
\* no record, and one exactly a minute after it gives a record of 0.5 hours.
C3_CutoffBoundary ==
    Done =>
        \A d \in ActiveDates \ off_days :
            HomeMinutes(d) # {} =>
                /\ MinutesLate(d) <= 0 => RecordsOn(d) = {}
                /\ MinutesLate(d) = 1 =>
                      /\ RecordsOn(d) # {}
                      /\ \A k \in RecordsOn(d) : overtime_df[k].OvertimeHours = 30

C3_Witness ==
    /\ Done
    /\ off_days = {}
    /\ HomeMinutes(Sat16Mar) = {16 * 60 + 31}
    /\ HomeMinutes(Tue19Mar) = {17 * 60 + 30}
    /\ \E k \in RecordsOn(Sat16Mar) : overtime_df[k].OvertimeHours = 30
    /\ RecordsOn(Tue19Mar) = {}

----------------------------------------------------------------------------
(* C4 *)

\* C4: every emitted record has more than 0 and at most 7.5 hours, from the
\* off-day branch or from the cutoff branch.
C4_CapLaw ==
    /\ \A k \in 1..Len(overtime_rows) :
          overtime_rows[k].OvertimeHours > 0 /\ overtime_rows[k].OvertimeHours <= 450
    /\ \A k \in 1..Len(overtime_df) :
          overtime_df[k].OvertimeHours > 0 /\ overtime_df[k].OvertimeHours <= 450

C4_Witness ==
    /\ Done
    /\ \E k \in 1..Len(overtime_df) :
          RecordDate(overtime_df[k]) \in off_days /\ overtime_df[k].OvertimeHours = 450
    /\ \E k \in 1..Len(overtime_df) :
          RecordDate(overtime_df[k]) \notin off_days /\ overtime_df[k].OvertimeHours < 450
    /\ \E d \in ActiveDates \ off_days : HomeMinutes(d) # {} /\ RecordsOn(d) = {}

----------------------------------------------------------------------------
(* C5 *)

\* C5: the emitted records hold at most one record per calendar date and are
\* in ascending order of the calendar date, also across months.
C5_ResultOrdering ==
    Done =>
        \A j, k \in 1..Len(overtime_df) :
            j < k => RecordDate(overtime_df[j]) < RecordDate(overtime_df[k])

----------------------------------------------------------------------------
(* C6 *)

WorkedSundays == {d \in ActiveDates : Weekday(d) = 6}

WorkedSaturdays == {d \in ActiveDates : Weekday(d) = 5}

\* C6 as stated: the off-day set is the union of {S-2, S-1} over the Sundays
\* with activity and of {T+1, T+2} over the Saturdays with activity.
C6_DerivedFromWorkedWeekends ==
    PatternChosen =>
        off_days = UNION ({{S - 2, S - 1} : S \in WorkedSundays}
                          \cup {{T + 1, T + 2} : T \in WorkedSaturdays})

\* C6 as amended: the off-day set is empty unless the pattern is enabled and
\* exactly two dates are selected; then it is {S-2, S-1, T+1, T+2} for the
\* earlier selected date S and the later one T, whatever their weekdays and
\* the order of selection (30-Mar and 31-Mar give 28-Mar, 29-Mar, 01-Apr, 02-Apr).
C6_DerivedFromSelection ==
    PatternChosen =>
        /\ Picked \subseteq ActiveDates
        /\ (~use_pattern \/ Cardinality(Picked) # 2) => off_days = {}
        /\ (use_pattern /\ Cardinality(Picked) = 2) =>
              /\ off_days = {Least(Picked) - 2, Least(Picked) - 1,
                             Greatest(Picked) + 1, Greatest(Picked) + 2}
              /\ Picked = {Sat30Mar, Sun31Mar} =>
                    off_days = {ToOrdinal(2024, 3, 28), ToOrdinal(2024, 3, 29),
                                ToOrdinal(2024, 4, 1), ToOrdinal(2024, 4, 2)}

C6_Witness ==
    /\ Done
    /\ use_pattern
    /\ sel = <<Mon01Apr, Sat30Mar>>
    /\ WorkedSundays # {}
    /\ off_days = {Sat30Mar - 2, Sat30Mar - 1, Mon01Apr + 1, Mon01Apr + 2}

----------------------------------------------------------------------------
(* C7 *)

\* the value of a home-arrival field that is absent
Absent == <<>>

\* C7: every record of the off-day branch carries no home arrival.
C7_FullDayRecordShape ==
    Done =>
        \A k \in 1..Len(overtime_df) :
            RecordDate(overtime_df[k]) \in off_days => overtime_df[k].HomeArrival = Absent

----------------------------------------------------------------------------
(* C8 *)

\* a Start Time cell that is no date of the calendar
Unparseable(cell) == cell.d > DaysInMonth(cell.y, cell.m)

RemoveAt(rows, i) == SubSeq(rows, 1, i - 1) \o SubSeq(rows, i + 1, Len(rows))

ResultOf(rows, off) ==
    SortByDate(LoopRows(DateKeys(ProcessRows(rows)), ProcessRows(rows), off))

\* C8: a row whose start time cannot be parsed does not stop the run and adds
\* nothing: for the same off-day set, the records and the total are those of
\* the input without that row, and no record shows that row as a home arrival.
C8_MalformedTimestamp ==
    /\ \A i \in 1..Len(raw_df) :
          Unparseable(uploaded[i].StartTime) => raw_df[i].EndTimeParsed = NaT
    /\ Done =>
          \A i \in 1..Len(uploaded) :
              Unparseable(uploaded[i].StartTime) =>
                  /\ overtime_df = ResultOf(RemoveAt(uploaded, i), off_days)
                  /\ total_overtime = SumHours(ResultOf(RemoveAt(uploaded, i), off_days))
                  /\ \A k \in 1..Len(overtime_df) :
                        LET d == RecordDate(overtime_df[k])
                        IN  \E j \in 1..Len(uploaded) :
                                /\ ~Unparseable(uploaded[j].StartTime)
                                /\ uploaded[j].EndLocation = "Home"
                                /\ ToOrdinal(uploaded[j].StartTime.y, uploaded[j].StartTime.m,
                                             uploaded[j].StartTime.d) = d
                                /\ overtime_df[k].HomeArrival =
                                      <<uploaded[j].StartTime.H, uploaded[j].StartTime.M>>

C8_Witness ==
    /\ Done
    /\ \E i \in 1..Len(uploaded) :
          Unparseable(uploaded[i].StartTime) /\ uploaded[i].EndLocation = "Home"
    /\ Len(overtime_df) = 2
    /\ total_overtime = 120 + 120

----------------------------------------------------------------------------
(* C9 *)

MonthIndex(n) == 12 * YearOf(n) + MonthOf(n)

\* C9 as stated: every off-day lies in the calendar month of the date it was
\* derived from.
C9_SameMonth ==
    (PatternChosen /\ use_pattern /\ Cardinality(Picked) = 2) =>
        \A x \in off_days :
            /\ x < Least(Picked) => MonthIndex(x) = MonthIndex(Least(Picked))
            /\ x > Greatest(Picked) => MonthIndex(x) = MonthIndex(Greatest(Picked))

\* C9 as amended: every off-day lies one or two days before the earlier
\* selected date or one or two days after the later one, so in the calendar
\* month of that date or in the month next to it: the derivation does cross
\* month boundaries (31-Mar as the later date gives 01-Apr and 02-Apr).
C9_WithinTwoDays ==
    PatternChosen =>
        \A x \in off_days :
            /\ Cardinality(Picked) = 2
            /\ \/ /\ Least(Picked) - x \in {1, 2}
                  /\ MonthIndex(Least(Picked)) - MonthIndex(x) \in {0, 1}
               \/ /\ x - Greatest(Picked) \in {1, 2}
                  /\ MonthIndex(x) - MonthIndex(Greatest(Picked)) \in {0, 1}

C9_Witness ==
    /\ Done
    /\ Picked = {Sat30Mar, Sun31Mar}
    /\ Mon01Apr \in off_days
    /\ MonthIndex(Mon01Apr) = MonthIndex(Sun31Mar) + 1
    /\ RecordsOn(Mon01Apr) # {}

----------------------------------------------------------------------------
(* C10 *)

\* C10: outside the off-day set, the home arrival of a day's record is the
\* greatest time among the day's events that end at the home code, later
\* events that end elsewhere being ignored, and a day without an event that
\* ends at the home code has no record.
C10_LatestHomeArrival ==
    Done =>
        \A d \in ActiveDates \ off_days :
            /\ HomeMinutes(d) = {} => RecordsOn(d) = {}
            /\ \A k \in RecordsOn(d) :
                  /\ HomeMinutes(d) # {}
                  /\ overtime_df[k].HomeArrival =
                        <<Greatest(HomeMinutes(d)) \div 60, Greatest(HomeMinutes(d)) % 60>>

C10_Witness ==
    /\ Done
    /\ off_days = {}
    /\ HomeMinutes(Sun31Mar) = {17 * 60 + 30}
    /\ \E j \in 1..Len(raw_df) :
          /\ raw_df[j].EndTimeParsed = [date |-> Sun31Mar, minute |-> 18 * 60 + 7]
          /\ raw_df[j].EndPostcode = "UB7"
    /\ \E k \in RecordsOn(Sun31Mar) : overtime_df[k].HomeArrival = <<17, 30>>
    /\ HomeMinutes(Sat30Mar) = {}
    /\ Sat30Mar \in ActiveDates
    /\ RecordsOn(Sat30Mar) = {}

====
